---- MODULE Spec2Model ----
(***************************************************************************)
(* Model of tools/parse_data_fs.py: the read-only inspector of the         *)
(* OsFinalProject filesystem image (data.fs).                              *)
(*                                                                         *)
(* The image is the file's bytes: its length and the bytes that are not 0  *)
(* (a file position not listed holds 0).  Every record (superblock, inode, *)
(* directory entry) is decoded from those bytes with the layouts the       *)
(* source declares.  main() is a state machine:                            *)
(* open + read_superblock, then one of info / ls / cat / bitmap, the loops *)
(* of resolve_path, list_dir, read_file_content and bitmap_stats taking    *)
(* one iteration per step.  An uncaught exception ends the command.        *)
(*                                                                         *)
(* Text is a sequence of character codes.  Images hold ASCII names only.   *)
(***************************************************************************)
EXTENDS Integers, Sequences, FiniteSets, TLC

VARIABLES image, cmd, path, pc, sb, reads, err, current, comps, ino, inoReq,
          entries, out, remaining, idx, used, bit_index

vars == <<image, cmd, path, pc, sb, reads, err, current, comps, ino, inoReq,
          entries, out, remaining, idx, used, bit_index>>

----------------------------------------------------------------------------
(* Program constants *)

FS_MAGIC == 539300357
\* 0x20251205

SB_SIZE == 44

INODE_SIZE == 44

DIRENTRY_SIZE == 64

NAME_SIZE == 60

NDIRECT == 8

Slash == 47

----------------------------------------------------------------------------
(* Bounds of the model *)

MaxRootId == 4

MaxRepeat == 4

MaxBitmapBlocks == 3

MaxProbeId == 5

----------------------------------------------------------------------------
(* Byte-level helpers *)

Min(a, b) == IF a < b THEN a ELSE b

Zeros(n) == [i \in 1..n |-> 0]

\* b[from : to] of Python: the bytes at 0-based positions from .. to-1, cut at the end
Slice(b, from, to) == SubSeq(b, from + 1, Min(to, Len(b)))

\* struct "<I": four bytes, little-endian
LE32(n) == <<n % 256, (n \div 256) % 256, (n \div 65536) % 256, (n \div 16777216) % 256>>

U32(b, off) == b[off + 1] + 256 * b[off + 2] + 65536 * b[off + 3] + 16777216 * b[off + 4]

RECURSIVE Flatten(_)
Flatten(ss) == IF ss = <<>> THEN <<>> ELSE Head(ss) \o Flatten(Tail(ss))

Pad(b, n) == IF Len(b) >= n THEN SubSeq(b, 1, n) ELSE b \o Zeros(n - Len(b))

----------------------------------------------------------------------------
(* The records *)

NoSuperBlock ==
    [magic |-> 0, blockSize |-> 0, totalBlocks |-> 0, inodeTableStart |-> 0,
     inodeTableBlocks |-> 0, inodeCount |-> 0, freeBitmapStart |-> 0,
     freeBitmapBlocks |-> 0, dataBlockStart |-> 0, dataBlockCount |-> 0,
     rootInodeId |-> 0]

NoInode == [id |-> 0, is_dir |-> FALSE, size |-> 0, direct |-> Zeros(NDIRECT)]

\* the byte at 0-based position p of file f
ByteAt(f, p) == IF (p + 1) \in DOMAIN f.nz THEN f.nz[p + 1] ELSE 0

\* the file with the bytes b
FileOf(b) == [len |-> Len(b), nz |-> [i \in {j \in 1..Len(b) : b[j] # 0} |-> b[i]]]

\* f.read(n) after f.seek(pos), then the length test of read_exact
read_exact(f, pos, n) ==
    IF pos + n <= f.len
    THEN [err |-> "", data |-> [i \in 1..n |-> ByteAt(f, pos + i - 1)]]
    ELSE [err |-> "ShortRead", data |-> <<>>]

SuperBlockOf(raw) ==
    [magic |-> U32(raw, 0), blockSize |-> U32(raw, 4), totalBlocks |-> U32(raw, 8),
     inodeTableStart |-> U32(raw, 12), inodeTableBlocks |-> U32(raw, 16),
     inodeCount |-> U32(raw, 20), freeBitmapStart |-> U32(raw, 24),
     freeBitmapBlocks |-> U32(raw, 28), dataBlockStart |-> U32(raw, 32),
     dataBlockCount |-> U32(raw, 36), rootInodeId |-> U32(raw, 40)]

\* faulty variant: the geometry test placed before the magic test
read_superblock_GeometryFirst(f) ==
    LET raw == read_exact(f, 0, SB_SIZE) IN
    IF raw.err # "" THEN [err |-> raw.err, sb |-> NoSuperBlock]
    ELSE LET s == SuperBlockOf(raw.data) IN
         IF s.blockSize <= 0 \/ s.totalBlocks <= 0
         THEN [err |-> "InvalidGeometry", sb |-> NoSuperBlock]
         ELSE IF s.magic # FS_MAGIC THEN [err |-> "BadMagic", sb |-> NoSuperBlock]
              ELSE [err |-> "", sb |-> s]

read_superblock(f) ==
    LET raw == read_exact(f, 0, SB_SIZE) IN
    IF raw.err # "" THEN [err |-> raw.err, sb |-> NoSuperBlock]
    ELSE LET s == SuperBlockOf(raw.data) IN
         IF s.magic # FS_MAGIC THEN [err |-> "BadMagic", sb |-> NoSuperBlock]
         ELSE IF s.blockSize <= 0 \/ s.totalBlocks <= 0
              THEN [err |-> "InvalidGeometry", sb |-> NoSuperBlock]
              ELSE [err |-> "", sb |-> s]

file_offset_of_block(s, block_id) == block_id * s.blockSize

\* faulty variant: no range test on the block id
read_block_Unchecked(f, s, block_id) ==
    LET off == file_offset_of_block(s, block_id)
        r   == read_exact(f, off, s.blockSize)
    IN [err |-> r.err, data |-> r.data,
        rd |-> <<[kind |-> "block", off |-> off, len |-> s.blockSize]>>]

\* rd: the positioned reads the call issued (none when it fails before seeking)
read_block(f, s, block_id) ==
    IF block_id < 0 \/ block_id >= s.totalBlocks
    THEN [err |-> "OutOfRange", data |-> <<>>, rd |-> <<>>]
    ELSE LET off == file_offset_of_block(s, block_id)
             r   == read_exact(f, off, s.blockSize)
         IN [err |-> r.err, data |-> r.data,
             rd |-> <<[kind |-> "block", off |-> off, len |-> s.blockSize]>>]

\* faulty variant: the inode id, not its index in the block, scales the record size
inode_offset_NoModulo(s, inode_id) ==
    LET inodes_per_block == s.blockSize \div INODE_SIZE IN
    IF inodes_per_block <= 0 THEN [err |-> "InvalidLayout", off |-> 0]
    ELSE IF inode_id < 0 \/ inode_id >= s.inodeCount
    THEN [err |-> "OutOfRange", off |-> 0]
    ELSE LET block_index == inode_id \div inodes_per_block
         IN IF block_index >= s.inodeTableBlocks
            THEN [err |-> "GeometryMismatch", off |-> 0]
            ELSE [err |-> "",
                  off |-> file_offset_of_block(s, s.inodeTableStart + block_index)
                          + inode_id * INODE_SIZE]

inode_offset(s, inode_id) ==
    LET inodes_per_block == s.blockSize \div INODE_SIZE IN
    IF inodes_per_block <= 0 THEN [err |-> "InvalidLayout", off |-> 0]
    ELSE IF inode_id < 0 \/ inode_id >= s.inodeCount
    THEN [err |-> "OutOfRange", off |-> 0]
    ELSE LET block_index    == inode_id \div inodes_per_block
             index_in_block == inode_id % inodes_per_block
         IN IF block_index >= s.inodeTableBlocks
            THEN [err |-> "GeometryMismatch", off |-> 0]
            ELSE [err |-> "",
                  off |-> file_offset_of_block(s, s.inodeTableStart + block_index)
                          + index_in_block * INODE_SIZE]

\* struct "<I?3xI8I": id, flag, 3 pad bytes, size, eight block ids
InodeOf(raw) ==
    [id |-> U32(raw, 0), is_dir |-> raw[5] # 0, size |-> U32(raw, 8),
     direct |-> [k \in 1..NDIRECT |-> U32(raw, 12 + 4 * (k - 1))]]

read_inode(f, s, inode_id) ==
    LET o == inode_offset(s, inode_id) IN
    IF o.err # "" THEN [err |-> o.err, ino |-> NoInode, rd |-> <<>>]
    ELSE LET r  == read_exact(f, o.off, INODE_SIZE)
             rd == <<[kind |-> "inode", off |-> o.off, len |-> INODE_SIZE]>>
         IN IF r.err # "" THEN [err |-> r.err, ino |-> NoInode, rd |-> rd]
            ELSE [err |-> "", ino |-> InodeOf(r.data), rd |-> rd]

----------------------------------------------------------------------------
(* Paths and directory blocks *)

RECURSIVE SplitFrom(_, _, _, _)
SplitFrom(p, i, cur, cs) ==
    IF i > Len(p) THEN (IF cur # <<>> THEN Append(cs, cur) ELSE cs)
    ELSE IF p[i] = Slash
         THEN (IF cur # <<>> THEN SplitFrom(p, i + 1, <<>>, Append(cs, cur))
                             ELSE SplitFrom(p, i + 1, cur, cs))
         ELSE SplitFrom(p, i + 1, Append(cur, p[i]), cs)

split_path(p) == SplitFrom(p, 1, <<>>, <<>>)

\* name_raw.split(b"\x00", 1)[0]
RECURSIVE UpToNul(_)
UpToNul(b) == IF b = <<>> \/ Head(b) = 0 THEN <<>> ELSE <<Head(b)>> \o UpToNul(Tail(b))

\* decode("utf-8", errors="replace") on ASCII input; a byte that starts no
\* ASCII character becomes U+FFFD
Utf8Decode(b) == [i \in 1..Len(b) |-> IF b[i] < 128 THEN b[i] ELSE 65533]

RECURSIVE ParseFrom(_, _, _)
ParseFrom(block, i, es) ==
    IF i >= Len(block) THEN es
    ELSE LET chunk == Slice(block, i, i + DIRENTRY_SIZE) IN
         IF Len(chunk) # DIRENTRY_SIZE THEN es
         ELSE LET inode_id == U32(chunk, 0)
                  name_raw == SubSeq(chunk, 5, DIRENTRY_SIZE)
              IN IF inode_id = 0 THEN ParseFrom(block, i + DIRENTRY_SIZE, es)
                 ELSE ParseFrom(block, i + DIRENTRY_SIZE,
                                Append(es, [id |-> inode_id,
                                             name |-> Utf8Decode(UpToNul(name_raw))]))

\* faulty variant: slots with inode id 0 are not skipped
RECURSIVE ParseAllFrom(_, _, _)
ParseAllFrom(block, i, es) ==
    IF i >= Len(block) THEN es
    ELSE LET chunk == Slice(block, i, i + DIRENTRY_SIZE) IN
         IF Len(chunk) # DIRENTRY_SIZE THEN es
         ELSE ParseAllFrom(block, i + DIRENTRY_SIZE,
                           Append(es, [id |-> U32(chunk, 0),
                                       name |-> Utf8Decode(UpToNul(SubSeq(chunk, 5, DIRENTRY_SIZE)))]))

parse_dir_block_KeepEmpty(block) == ParseAllFrom(block, 0, <<>>)

parse_dir_block(block) == ParseFrom(block, 0, <<>>)

\* faulty variant: no break, the last match wins
RECURSIVE FirstMatch_NoBreak(_, _)
FirstMatch_NoBreak(es, name) ==
    IF es = <<>> THEN 0
    ELSE LET later == FirstMatch_NoBreak(Tail(es), name) IN
         IF later # 0 THEN later ELSE IF Head(es).name = name THEN Head(es).id ELSE 0

\* the for/break scan of resolve_path: 0 stands for nxt = None
RECURSIVE FirstMatch(_, _)
FirstMatch(es, name) ==
    IF es = <<>> THEN 0
    ELSE IF Head(es).name = name THEN Head(es).id ELSE FirstMatch(Tail(es), name)

\* faulty variant: only the empty path is taken as the root
IsRootPath_EmptyOnly(p) == p = <<>>

\* path == "" or path == "/"
IsRootPath(p) == p = <<>> \/ p = <<Slash>>

\* faulty variant: a 0 block id does not end the loop
FileLoopDone_NoZeroBreak(direct, i, rem) == i > NDIRECT \/ rem <= 0

\* the two breaks of the loop of read_file_content; i > NDIRECT is the end of ino.direct
FileLoopDone(direct, i, rem) == i > NDIRECT \/ rem <= 0 \/ direct[i] = 0

\* faulty variant: the new chunk goes in front
AppendChunk_Prepend(chunks, blk, take) == Slice(blk, 0, take) \o chunks

\* chunks.append(blk[:take]); the join keeps the order of the appends
AppendChunk(chunks, blk, take) == chunks \o Slice(blk, 0, take)

\* one iteration of the for-loop of resolve_path
ResolveIter(f, s, cur, name) ==
    LET r == read_inode(f, s, cur) IN
    IF r.err # "" THEN [err |-> r.err, nxt |-> 0, rd |-> r.rd, got |-> FALSE, ino |-> NoInode]
    ELSE IF ~r.ino.is_dir
    THEN [err |-> "NotADirectory", nxt |-> 0, rd |-> r.rd, got |-> TRUE, ino |-> r.ino]
    ELSE IF r.ino.direct[1] = 0
    THEN [err |-> "EmptyDirectory", nxt |-> 0, rd |-> r.rd, got |-> TRUE, ino |-> r.ino]
    ELSE LET b == read_block(f, s, r.ino.direct[1]) IN
         IF b.err # ""
         THEN [err |-> b.err, nxt |-> 0, rd |-> r.rd \o b.rd, got |-> TRUE, ino |-> r.ino]
         ELSE LET nxt == FirstMatch(parse_dir_block(b.data), name) IN
              [err |-> IF nxt = 0 THEN "PathNotFound" ELSE "", nxt |-> nxt,
               rd |-> r.rd \o b.rd, got |-> TRUE, ino |-> r.ino]

----------------------------------------------------------------------------
(* The bitmap scan *)

\* (byte >> k) & 1
BitOf(byte, k) == (byte \div (2 ^ k)) % 2

\* the inner for-loop of bitmap_stats: n bits from the running bit_index;
\* bmp[bit_index // 8] beyond the block raises IndexError
RECURSIVE ScanBits(_, _, _, _)
ScanBits(bmp, bi, n, u) ==
    IF n = 0 THEN [err |-> "", used |-> u, bit_index |-> bi]
    ELSE IF bi \div 8 >= Len(bmp) THEN [err |-> "IndexError", used |-> u, bit_index |-> bi]
    ELSE ScanBits(bmp, bi + 1, n - 1, u + BitOf(bmp[(bi \div 8) + 1], bi % 8))

----------------------------------------------------------------------------
(* On-disk encodings, used to build the images the commands are run on *)

EncodeSuper(s) ==
    LE32(s.magic) \o LE32(s.blockSize) \o LE32(s.totalBlocks) \o LE32(s.inodeTableStart)
    \o LE32(s.inodeTableBlocks) \o LE32(s.inodeCount) \o LE32(s.freeBitmapStart)
    \o LE32(s.freeBitmapBlocks) \o LE32(s.dataBlockStart) \o LE32(s.dataBlockCount)
    \o LE32(s.rootInodeId)

EncodeInode(i) ==
    LE32(i.id) \o <<IF i.is_dir THEN 1 ELSE 0, 0, 0, 0>> \o LE32(i.size)
    \o Flatten([k \in 1..NDIRECT |-> LE32(i.direct[k])])

EncodeDirEntry(e) == LE32(e.id) \o Pad(e.raw, NAME_SIZE)

Direct1(b) == [k \in 1..NDIRECT |-> IF k = 1 THEN b ELSE 0]

MkSuper(magic, bs, tb, its, itb, ic, fbs, fbb, dbs, dbc, root) ==
    [magic |-> magic, blockSize |-> bs, totalBlocks |-> tb, inodeTableStart |-> its,
     inodeTableBlocks |-> itb, inodeCount |-> ic, freeBitmapStart |-> fbs,
     freeBitmapBlocks |-> fbb, dataBlockStart |-> dbs, dataBlockCount |-> dbc,
     rootInodeId |-> root]

MkInode(id, is_dir, size, direct) ==
    [id |-> id, is_dir |-> is_dir, size |-> size, direct |-> direct]

\* Images with a four-inode table in blocks 1 .. ITB, then the root directory's
\* block, a second directory's block and two data blocks.  totalBlocks counts
\* one block more than the file holds, so the last block id is in range but
\* its read comes up short.
ITB(bs) == (4 + (bs \div INODE_SIZE) - 1) \div (bs \div INODE_SIZE)

RootBlk(bs) == ITB(bs) + 1

SubBlk(bs) == ITB(bs) + 2

DataBlkA(bs) == ITB(bs) + 3

DataBlkB(bs) == ITB(bs) + 4

ShortBlk(bs) == ITB(bs) + 5

BadBlk(bs) == ITB(bs) + 9

\* data blocks: bytes that tell the block and the position at both ends, 0 between
DataA(bs) == [i \in 1..bs |-> IF i <= 3 \/ i >= bs - 1 THEN 1 + (i % 7) ELSE 0]

DataB(bs) == [i \in 1..bs |-> IF i <= 3 \/ i >= bs - 1 THEN 10 + (i % 5) ELSE 0]

InodeTable(bs, inodes) ==
    LET ipb == bs \div INODE_SIZE IN
    Flatten([j \in 1..ITB(bs) |->
        Pad(Flatten([k \in 1..Min(ipb, Len(inodes) - (j - 1) * ipb) |->
                        EncodeInode(inodes[(j - 1) * ipb + k])]), bs)])

DirBlock(bs, slots) == Pad(Flatten([k \in 1..Len(slots) |-> EncodeDirEntry(slots[k])]), bs)

MkFs(bs, ic, inodes, rootSlots, subSlots) ==
    Pad(EncodeSuper(MkSuper(FS_MAGIC, bs, ITB(bs) + 6, 1, ITB(bs), ic, 0, 0,
                            RootBlk(bs), 4, 0)), bs)
    \o InodeTable(bs, inodes)
    \o DirBlock(bs, rootSlots) \o DirBlock(bs, subSlots)
    \o DataA(bs) \o DataB(bs)

A == <<97>>

B == <<98>>

C == <<99>>

Slot(id, raw) == [id |-> id, raw |-> raw]

RepPath(n) == Flatten([i \in 1..n |-> <<Slash>> \o A])

Cmds == {"info", "ls", "cat", "bitmap"}

\* --- directory images: the root directory's three slots vary
SlotChoices == {Slot(0, A), Slot(1, A), Slot(2, A), Slot(2, B), Slot(3, <<97, 0, 98>>)}

DirPaths ==
    {<<>>, <<Slash>>, <<Slash, Slash>>, <<Slash>> \o A, <<Slash>> \o B, A \o <<Slash>> \o B,
     <<Slash>> \o A \o <<Slash, Slash>> \o A \o <<Slash>> \o B \o <<Slash>>,
     <<Slash>> \o C}
    \cup {RepPath(n) : n \in 2..MaxRepeat}

StdInodes(bs) ==
    <<MkInode(0, TRUE, 0, Direct1(RootBlk(bs))),
      MkInode(1, TRUE, 0, Direct1(SubBlk(bs))),
      MkInode(2, FALSE, 5, Direct1(DataBlkA(bs))),
      MkInode(3, FALSE, 0, Direct1(0))>>

SubSlots == <<Slot(1, A), Slot(2, B), Slot(0, C)>>

InitDir ==
    \E s1 \in SlotChoices, s2 \in SlotChoices, s3 \in SlotChoices :
    \E c \in {"ls", "cat"}, p \in DirPaths :
        /\ image = FileOf(MkFs(200, 4, StdInodes(200), <<s1, s2, s3>>, SubSlots))
        /\ cmd = c /\ path = p

\* --- inode-table images: the inode records vary
Inode0Choices(bs) ==
    {MkInode(0, TRUE, 0, Direct1(RootBlk(bs))), MkInode(0, FALSE, 3, Direct1(RootBlk(bs))),
     MkInode(0, TRUE, 0, Direct1(0)), MkInode(0, TRUE, 0, Direct1(BadBlk(bs)))}

Inode1Choices(bs) ==
    {MkInode(1, TRUE, 0, Direct1(SubBlk(bs))), MkInode(1, TRUE, 0, Direct1(0)),
     MkInode(1, FALSE, 2, Direct1(DataBlkB(bs))), MkInode(7, TRUE, 0, Direct1(SubBlk(bs))),
     MkInode(1, TRUE, 0, Direct1(ShortBlk(bs)))}

Inode2Choices(bs) ==
    {MkInode(2, FALSE, 5, Direct1(DataBlkA(bs))), MkInode(3, FALSE, 5, Direct1(DataBlkA(bs))),
     MkInode(2, TRUE, 0, Direct1(SubBlk(bs)))}

InodePaths ==
    {<<Slash>>, <<Slash>> \o A, <<Slash>> \o B, <<Slash>> \o A \o <<Slash>> \o B, <<Slash>> \o C}

InitInodes ==
    \E i0 \in Inode0Choices(200), i1 \in Inode1Choices(200), i2 \in Inode2Choices(200) :
    \E ic \in {2, 4}, c \in {"info", "ls", "cat"}, p \in InodePaths :
        /\ image = FileOf(MkFs(200, ic, <<i0, i1, i2, MkInode(3, FALSE, 0, Direct1(0))>>,
                               <<Slot(1, A), Slot(2, B), Slot(3, C)>>, SubSlots))
        /\ cmd = c /\ path = p

\* --- file images: the size and the direct blocks of the file /b vary
Other(bs, b) == IF b = DataBlkA(bs) THEN DataBlkB(bs) ELSE DataBlkA(bs)

DirectPat(bs, k, first, tail) ==
    [j \in 1..NDIRECT |-> IF j <= k THEN (IF j % 2 = 1 THEN first ELSE Other(bs, first))
                          ELSE IF j = k + 1 THEN 0 ELSE tail]

FileDirects(bs) ==
    {DirectPat(bs, k, f, t) : k \in 0..NDIRECT, f \in {DataBlkA(bs), DataBlkB(bs)},
                              t \in {0, DataBlkA(bs)}}
    \cup {[j \in 1..NDIRECT |-> IF j = 1 THEN DataBlkA(bs) ELSE IF j = 2 THEN x ELSE 0] :
             x \in {ShortBlk(bs), BadBlk(bs)}}

FileSizes(bs) ==
    {0, 1, bs - 1, bs, bs + 1, 2 * bs, 3 * bs + 1, NDIRECT * bs - 1, NDIRECT * bs,
     NDIRECT * bs + 1}

InitFile ==
    \E d \in FileDirects(64), sz \in FileSizes(64) :
        /\ image = FileOf(MkFs(64, 4, <<MkInode(0, TRUE, 0, Direct1(RootBlk(64))),
                                        MkInode(1, FALSE, 0, Direct1(0)),
                                        MkInode(2, FALSE, sz, d),
                                        MkInode(3, FALSE, 0, Direct1(0))>>,
                               <<Slot(2, B)>>, <<>>))
        /\ cmd = "cat" /\ path = <<Slash>> \o B

\* --- bitmap images: blocks of one or two bytes, the bitmap right after the superblock
BitmapBytes(p, n) == [i \in 1..n |-> IF p = 0 THEN 0 ELSE IF p = 1 THEN 255 ELSE (37 * i) % 256]

InitBitmap ==
    \E bs \in {1, 2}, fbb \in 0..MaxBitmapBlocks, p \in 0..2 :
    \E dbc \in 0..(fbb * bs * 8 + 1), spare \in {0, 1} :
        /\ image = FileOf(EncodeSuper(MkSuper(FS_MAGIC, bs, (SB_SIZE \div bs) + fbb - spare + 1,
                                              0, 0, 0, SB_SIZE \div bs, fbb, 0, dbc, 0))
                          \o BitmapBytes(p, 2 * MaxBitmapBlocks))
        /\ cmd = "bitmap" /\ path = <<>>

\* --- geometry images: only the superblock matters
InitGeom ==
    \E bs \in {1, 43, 44, 45, 88, 100}, its \in {1, 2}, itb \in 0..2 :
    \E ic \in {0, 2, 3, 5}, root \in 0..MaxRootId :
        /\ image = FileOf(EncodeSuper(MkSuper(FS_MAGIC, bs, 8, its, itb, ic, 0, 0, 0, 0, root))
                          \o Zeros(256))
        /\ cmd = "info" /\ path = <<>>

InitBadSuper ==
    \E magic \in {0, FS_MAGIC + 1, FS_MAGIC}, bs \in {0, 64}, tb \in {0, 8} :
    \E n \in {20, 43, 44, 300}, c \in Cmds, p \in {<<Slash>>, <<Slash>> \o A} :
        /\ image = FileOf(Pad(EncodeSuper(MkSuper(magic, bs, tb, 1, 1, 1, 2, 1, 3, 4, 0)), n))
        /\ cmd = c /\ path = p

Init ==
    /\ pc = "open" /\ sb = NoSuperBlock /\ reads = <<>> /\ err = ""
    /\ current = -1 /\ comps = <<>> /\ ino = NoInode /\ inoReq = 0
    /\ entries = <<>> /\ out = <<>> /\ remaining = 0 /\ idx = 0
    /\ used = 0 /\ bit_index = 0
    /\ \/ InitDir
       \/ InitInodes
       \/ InitFile
       \/ InitBitmap
       \/ InitGeom
       \/ InitBadSuper

----------------------------------------------------------------------------
(* main() *)

Fail(e) == pc' = "exit" /\ err' = e /\ out' = <<>>

AfterResolve == IF cmd = "ls" THEN "ls" ELSE "cat"

\* with open(...) as f: sb = read_superblock(f), then the dispatch on args.cmd
ReadSuperblock ==
    /\ pc = "open"
    /\ reads' = Append(reads, [kind |-> "sb", off |-> 0, len |-> SB_SIZE])
    /\ LET r == read_superblock(image) IN
       IF r.err # "" THEN Fail(r.err) /\ sb' = sb
       ELSE /\ sb' = r.sb
            /\ pc' = (IF cmd = "info" THEN "info"
                      ELSE IF cmd = "bitmap" THEN "bitmap" ELSE "resolve")
            /\ UNCHANGED <<err, out>>
    /\ UNCHANGED <<image, cmd, path, current, comps, ino, inoReq, entries,
                   remaining, idx, used, bit_index>>

Info ==
    /\ pc = "info"
    /\ LET r == read_inode(image, sb, sb.rootInodeId) IN
       /\ reads' = reads \o r.rd
       /\ IF r.err # "" THEN Fail(r.err) /\ UNCHANGED <<ino, inoReq>>
          ELSE /\ ino' = r.ino /\ inoReq' = sb.rootInodeId
               /\ pc' = "exit" /\ UNCHANGED <<err, out>>
    /\ UNCHANGED <<image, cmd, path, sb, current, comps, entries,
                   remaining, idx, used, bit_index>>

\* resolve_path up to the loop
ResolveEnter ==
    /\ pc = "resolve"
    /\ IF IsRootPath(path)
       THEN /\ current' = sb.rootInodeId /\ pc' = AfterResolve
            /\ UNCHANGED <<comps, err, out>>
       ELSE LET c == split_path(path) IN
            IF c = <<>> THEN Fail("InvalidPath") /\ UNCHANGED <<comps, current>>
            ELSE /\ comps' = c /\ current' = sb.rootInodeId /\ pc' = "walk"
                 /\ UNCHANGED <<err, out>>
    /\ UNCHANGED <<image, cmd, path, sb, reads, ino, inoReq, entries,
                   remaining, idx, used, bit_index>>

ResolveStep ==
    /\ pc = "walk"
    /\ LET r == ResolveIter(image, sb, current, Head(comps)) IN
       /\ reads' = reads \o r.rd
       /\ IF r.got THEN ino' = r.ino /\ inoReq' = current ELSE UNCHANGED <<ino, inoReq>>
       /\ IF r.err # "" THEN Fail(r.err) /\ UNCHANGED <<current, comps>>
          ELSE /\ current' = r.nxt /\ comps' = Tail(comps)
               /\ pc' = (IF Tail(comps) = <<>> THEN AfterResolve ELSE "walk")
               /\ UNCHANGED <<err, out>>
    /\ UNCHANGED <<image, cmd, path, sb, entries, remaining, idx, used, bit_index>>

\* list_dir after resolve_path, up to its loop
ListDirEnter ==
    /\ pc = "ls"
    /\ LET r == read_inode(image, sb, current) IN
       IF r.err # "" THEN /\ reads' = reads \o r.rd /\ Fail(r.err)
                          /\ UNCHANGED <<ino, inoReq, entries>>
       ELSE /\ ino' = r.ino /\ inoReq' = current
            /\ IF ~r.ino.is_dir
               THEN /\ reads' = reads \o r.rd /\ Fail("NotADirectory")
                    /\ UNCHANGED entries
               ELSE IF r.ino.direct[1] = 0
               THEN /\ reads' = reads \o r.rd /\ out' = <<>> /\ pc' = "exit"
                    /\ UNCHANGED <<err, entries>>
               ELSE LET b == read_block(image, sb, r.ino.direct[1]) IN
                    /\ reads' = reads \o r.rd \o b.rd
                    /\ IF b.err # "" THEN Fail(b.err) /\ UNCHANGED entries
                       ELSE /\ entries' = parse_dir_block(b.data) /\ out' = <<>>
                            /\ pc' = "ls_loop" /\ UNCHANGED err
    /\ UNCHANGED <<image, cmd, path, sb, current, comps, remaining, idx, used, bit_index>>

\* one iteration of the loop of list_dir, or its return
ListDirChild ==
    /\ pc = "ls_loop"
    /\ IF entries = <<>>
       THEN /\ pc' = "exit" /\ UNCHANGED <<reads, err, out, entries, ino, inoReq>>
       ELSE LET e == Head(entries)
                r == read_inode(image, sb, e.id)
            IN /\ reads' = reads \o r.rd
               /\ IF r.err # "" THEN Fail(r.err) /\ UNCHANGED <<entries, ino, inoReq>>
                  ELSE /\ ino' = r.ino /\ inoReq' = e.id
                       /\ out' = Append(out, e.name \o (IF r.ino.is_dir THEN <<Slash>> ELSE <<>>))
                       /\ entries' = Tail(entries)
                       /\ UNCHANGED <<pc, err>>
    /\ UNCHANGED <<image, cmd, path, sb, current, comps, remaining, idx, used, bit_index>>

\* read_file_content after resolve_path, up to its loop
ReadFileEnter ==
    /\ pc = "cat"
    /\ LET r == read_inode(image, sb, current) IN
       /\ reads' = reads \o r.rd
       /\ IF r.err # "" THEN Fail(r.err) /\ UNCHANGED <<ino, inoReq, remaining, idx>>
          ELSE /\ ino' = r.ino /\ inoReq' = current
               /\ IF r.ino.is_dir THEN Fail("IsADirectory") /\ UNCHANGED <<remaining, idx>>
                  ELSE /\ remaining' = r.ino.size /\ idx' = 1 /\ out' = <<>>
                       /\ pc' = "cat_loop" /\ UNCHANGED err
    /\ UNCHANGED <<image, cmd, path, sb, current, comps, entries, used, bit_index>>

\* one iteration of the loop of read_file_content, or the test after it
ReadFileBlock ==
    /\ pc = "cat_loop"
    /\ IF FileLoopDone(ino.direct, idx, remaining)
       THEN /\ IF remaining # 0 THEN Fail("TruncatedFile")
                                ELSE pc' = "exit" /\ UNCHANGED <<err, out>>
            /\ UNCHANGED <<reads, remaining, idx>>
       ELSE LET b    == read_block(image, sb, ino.direct[idx])
                take == Min(remaining, sb.blockSize)
            IN /\ reads' = reads \o b.rd
               /\ IF b.err # "" THEN Fail(b.err) /\ UNCHANGED <<remaining, idx>>
                  ELSE /\ out' = AppendChunk(out, b.data, take)
                       /\ remaining' = remaining - take
                       /\ idx' = idx + 1
                       /\ UNCHANGED <<pc, err>>
    /\ UNCHANGED <<image, cmd, path, sb, current, comps, ino, inoReq, entries,
                   used, bit_index>>

\* bitmap_stats up to its loop
BitmapEnter ==
    /\ pc = "bitmap"
    /\ used' = 0 /\ remaining' = sb.dataBlockCount /\ bit_index' = 0 /\ idx' = 0
    /\ pc' = "bitmap_loop"
    /\ UNCHANGED <<image, cmd, path, sb, reads, err, current, comps, ino, inoReq,
                   entries, out>>

\* one iteration of the outer loop of bitmap_stats, or its return
BitmapBlock ==
    /\ pc = "bitmap_loop"
    /\ IF idx >= sb.freeBitmapBlocks \/ remaining <= 0
       THEN /\ out' = <<sb.dataBlockCount, used, sb.dataBlockCount - used>>
            /\ pc' = "exit"
            /\ UNCHANGED <<reads, err, remaining, idx, used, bit_index>>
       ELSE LET bmp == read_block(image, sb, sb.freeBitmapStart + idx) IN
            /\ reads' = reads \o bmp.rd
            /\ IF bmp.err # "" THEN Fail(bmp.err) /\ UNCHANGED <<remaining, idx, used, bit_index>>
               ELSE LET bits_in_this_block == Min(Len(bmp.data) * 8, remaining)
                        sc == ScanBits(bmp.data, bit_index, bits_in_this_block, used)
                    IN IF sc.err # ""
                       THEN Fail(sc.err) /\ UNCHANGED <<remaining, idx, used, bit_index>>
                       ELSE /\ used' = sc.used /\ bit_index' = sc.bit_index
                            /\ remaining' = remaining - bits_in_this_block
                            /\ idx' = idx + 1
                            /\ UNCHANGED <<pc, err, out>>
    /\ UNCHANGED <<image, cmd, path, sb, current, comps, ino, inoReq, entries>>

Next ==
    \/ ReadSuperblock
    \/ Info
    \/ ResolveEnter
    \/ ResolveStep
    \/ ListDirEnter
    \/ ListDirChild
    \/ ReadFileEnter
    \/ ReadFileBlock
    \/ BitmapEnter
    \/ BitmapBlock

----------------------------------------------------------------------------
(* Properties *)

\* read_superblock returned a superblock
SbOk == sb.magic = FS_MAGIC

SbRead == [kind |-> "sb", off |-> 0, len |-> SB_SIZE]

\* the reads of the command after the superblock's
OpReads == Tail(reads)

SetMin(S) == CHOOSE x \in S : \A y \in S : x <= y

\* the little-endian uint32 at a position of the image
ImageU32(off) == U32([i \in 1..4 |-> ByteAt(image, off + i - 1)], 0)

\* --- C1 -------------------------------------------------------------------
ValidBitmapRegion ==
    /\ \A b \in 0..(sb.freeBitmapBlocks - 1) :
          read_block(image, sb, sb.freeBitmapStart + b).err = ""
    /\ sb.freeBitmapBlocks * sb.blockSize * 8 >= sb.dataBlockCount

\* C1: for every geometry with a valid bitmap region (every bitmap block
\* readable, capacity >= dataBlockCount), also when dataBlockCount spans more
\* than one bitmap block, bitmap_stats returns without error (total, used, free)
\* with total = dataBlockCount, 0 <= used <= total and used + free = total, and
\* never indexes outside the bitmap block it scans.
C1_BitmapStatsReturns ==
    (cmd = "bitmap" /\ SbOk /\ ValidBitmapRegion)
    => /\ err = ""
       /\ pc = "exit" => /\ Len(out) = 3
                         /\ out[1] = sb.dataBlockCount
                         /\ 0 <= out[2] /\ out[2] <= out[1]
                         /\ out[2] + out[3] = out[1]

\* --- C7 -------------------------------------------------------------------
\* C7: when the 44-byte superblock was read and its magic differs from
\* FS_MAGIC, read_superblock fails with BadMagic, also when blockSize or
\* totalBlocks is 0 at the same time, and the command issues no read after
\* the superblock's.
C7_BadMagicFirst ==
    (pc # "open" /\ image.len >= SB_SIZE /\ ImageU32(0) # FS_MAGIC)
    => pc = "exit" /\ err = "BadMagic" /\ reads = <<SbRead>>

C7_Witness ==
    /\ pc = "exit" /\ err = "BadMagic" /\ cmd = "cat"
    /\ image.len >= SB_SIZE /\ ImageU32(4) = 0 /\ ImageU32(8) = 0 /\ reads = <<SbRead>>

\* --- C8 -------------------------------------------------------------------
\* C8: every inode read_inode returns has its id equal to the inode id that
\* was asked for.
C8_InodeIdMatchesSlot == ino # NoInode => ino.id = inoReq

\* --- C9 -------------------------------------------------------------------
ProbeIds == (0 - 1)..MaxProbeId

InOneTableBlock(off) ==
    \E blk \in sb.inodeTableStart..(sb.inodeTableStart + sb.inodeTableBlocks - 1) :
        blk * sb.blockSize <= off /\ off + INODE_SIZE <= (blk + 1) * sb.blockSize

\* C9: inode_offset tests InvalidLayout, then OutOfRange, then GeometryMismatch;
\* when it succeeds the 44 bytes at the offset lie inside one block of the
\* inode table, and two distinct inode ids get disjoint byte ranges.  The
\* inode reads the commands issue are such ranges.
C9_InodeOffset ==
    SbOk =>
    /\ \A i \in ProbeIds :
          LET r   == inode_offset(sb, i)
              ipb == sb.blockSize \div INODE_SIZE
          IN /\ ipb = 0 => r.err = "InvalidLayout"
             /\ (ipb # 0 /\ (i < 0 \/ i >= sb.inodeCount)) => r.err = "OutOfRange"
             /\ (ipb # 0 /\ i >= 0 /\ i < sb.inodeCount /\ i \div ipb >= sb.inodeTableBlocks)
                   => r.err = "GeometryMismatch"
             /\ (ipb # 0 /\ i >= 0 /\ i < sb.inodeCount /\ i \div ipb < sb.inodeTableBlocks)
                   => r.err = ""
             /\ r.err = "" => InOneTableBlock(r.off)
    /\ \A i \in ProbeIds, j \in ProbeIds :
          LET ri == inode_offset(sb, i)
              rj == inode_offset(sb, j)
          IN (i # j /\ ri.err = "" /\ rj.err = "")
             => (ri.off + INODE_SIZE <= rj.off \/ rj.off + INODE_SIZE <= ri.off)
    /\ \A k \in DOMAIN reads :
          reads[k].kind = "inode" => InOneTableBlock(reads[k].off)

C9_Witness ==
    /\ pc = "exit" /\ cmd = "info" /\ err = "" /\ inoReq = 3
    /\ sb.blockSize = 88 /\ sb.inodeTableBlocks = 2
    /\ reads[2].off = (sb.inodeTableStart + 1) * 88 + INODE_SIZE

\* --- C4 -------------------------------------------------------------------
ZeroComponents == split_path(path) = <<>>

\* resolve_path has been entered and left
Resolved == cmd \in {"ls", "cat"} /\ SbOk /\ pc \notin {"open", "resolve"}

\* C4 as stated: for every path with zero components ("", "/", "//", ...)
\* resolve_path returns rootInodeId and reads nothing.
C4_ZeroComponentsResolveToRoot ==
    (Resolved /\ ZeroComponents)
    => /\ err # "InvalidPath"
       /\ current = sb.rootInodeId
       /\ pc \in {"ls", "cat"} => reads = <<SbRead>>

\* C4 as amended: "" and "/" resolve to rootInodeId without any read; every
\* other path with zero components ("//", "///") makes resolve_path fail with
\* "invalid path", also without any read.
C4_RootPathsResolveToRoot ==
    (Resolved /\ ZeroComponents)
    => IF path = <<>> \/ path = <<Slash>>
       THEN /\ err # "InvalidPath"
            /\ current = sb.rootInodeId
            /\ pc \in {"ls", "cat"} => reads = <<SbRead>>
       ELSE pc = "exit" /\ err = "InvalidPath" /\ reads = <<SbRead>>

C4_Witness ==
    /\ Resolved /\ path = <<Slash>> /\ pc \in {"ls", "cat"}
    /\ current = sb.rootInodeId /\ reads = <<SbRead>>

\* --- C5, C6 ---------------------------------------------------------------
\* The directory-entry slots of a block, read straight from its bytes.
NSlots(blk) == Len(blk) \div DIRENTRY_SIZE

SlotId(blk, k) == U32(blk, DIRENTRY_SIZE * k)

SlotNameLen(blk, k) ==
    SetMin({n \in 0..NAME_SIZE :
               n = NAME_SIZE \/ blk[DIRENTRY_SIZE * k + 4 + n + 1] = 0})

SlotName(blk, k) == [i \in 1..SlotNameLen(blk, k) |-> blk[DIRENTRY_SIZE * k + 4 + i]]

\* the first data block of directory inode d, when both can be read
DirBlockOf(d) ==
    LET r == read_inode(image, sb, d) IN
    IF r.err # "" \/ ~r.ino.is_dir \/ r.ino.direct[1] = 0 THEN <<>>
    ELSE read_block(image, sb, r.ino.direct[1]).data

Matching(blk, name) ==
    {k \in 0..(NSlots(blk) - 1) : SlotId(blk, k) # 0 /\ SlotName(blk, k) = name}

\* C5: one step of resolve_path, on a directory whose first block is read,
\* moves to the inode id of the earliest slot with a non-zero id whose name is
\* the component, and fails with PathNotFound when there is no such slot.
C5_FirstMatchWins ==
    [][(pc = "walk" /\ DirBlockOf(current) # <<>>)
       => LET blk == DirBlockOf(current)
              m   == Matching(blk, Head(comps))
          IN IF m = {}
             THEN pc' = "exit" /\ err' = "PathNotFound"
             ELSE err' = "" /\ current' = SlotId(blk, SetMin(m))]_vars

\* /a resolved in a root directory whose slots are (0, "a"), (2, "a"), (1, "a")
C5_Witness ==
    /\ cmd = "ls" /\ pc = "ls" /\ path = <<Slash>> \o A /\ current = 2
    /\ LET blk == DirBlockOf(sb.rootInodeId) IN
       /\ blk # <<>>
       /\ SlotId(blk, 0) = 0 /\ SlotId(blk, 1) = 2 /\ SlotId(blk, 2) = 1
       /\ \A k \in 0..2 : SlotName(blk, k) = A

NonEmptySlots(blk) == {k \in 0..(NSlots(blk) - 1) : SlotId(blk, k) # 0}

\* C6: when list_dir succeeds its result has one element for each slot with a
\* non-zero inode id of the directory's first block, in slot order (the name,
\* with "/" appended for a directory), none for a slot with id 0, and is empty
\* when the directory's first direct block is 0.
C6_ListingMatchesSlots ==
    (cmd = "ls" /\ SbOk /\ pc = "exit" /\ err = "")
    => LET d == read_inode(image, sb, current).ino IN
       IF d.direct[1] = 0 THEN out = <<>>
       ELSE LET blk == read_block(image, sb, d.direct[1]).data
                nz  == NonEmptySlots(blk)
            IN /\ Len(out) = Cardinality(nz)
               /\ \A k \in nz :
                     LET pos   == Cardinality({j \in nz : j <= k})
                         child == read_inode(image, sb, SlotId(blk, k)).ino
                     IN out[pos] = SlotName(blk, k)
                                   \o (IF child.is_dir THEN <<Slash>> ELSE <<>>)

C6_Witness ==
    /\ cmd = "ls" /\ SbOk /\ pc = "exit" /\ err = "" /\ path = <<Slash>>
    /\ out = <<B, A \o <<Slash>>>>
    /\ SlotId(DirBlockOf(current), 0) = 0

\* --- C2, C3 ---------------------------------------------------------------
BlockReads == {k \in DOMAIN reads : reads[k].kind = "block"}

CeilDiv(a, b) == (a + b - 1) \div b

\* C2: when read_file_content succeeds the result has exactly inode.size
\* bytes, and byte i of it is byte (i mod blockSize) of the block named by
\* direct slot (i div blockSize): whole blocks in slot order, then a prefix of
\* the last one.  Only the blocks that supply bytes are read, so a file of
\* size 0 reads no data block.
C2_ContentIsPrefixOfBlocks ==
    (cmd = "cat" /\ SbOk /\ pc = "exit" /\ err = "")
    => LET bs == sb.blockSize IN
       /\ ~ino.is_dir /\ inoReq = current
       /\ ino.size <= NDIRECT * bs
       /\ Len(out) = ino.size
       /\ \A i \in 1..ino.size :
             LET b == ino.direct[((i - 1) \div bs) + 1] IN
             b # 0 /\ out[i] = ByteAt(image, b * bs + ((i - 1) % bs))
       /\ Cardinality(BlockReads) = Len(split_path(path)) + CeilDiv(ino.size, bs)
       /\ ino.size = 0 => out = <<>>

C2_Witness ==
    /\ cmd = "cat" /\ SbOk /\ pc = "exit" /\ err = ""
    /\ ino.size = 3 * sb.blockSize + 1 /\ Len(out) = ino.size
    /\ ino.direct[1] # ino.direct[2]

\* the number of direct block ids before the first 0 (8 when none is 0)
KBeforeZero(direct) == SetMin({k \in 0..NDIRECT : k = NDIRECT \/ direct[k + 1] = 0})

VisitedReadable ==
    \A j \in 1..Min(KBeforeZero(ino.direct), CeilDiv(ino.size, sb.blockSize)) :
        read_block(image, sb, ino.direct[j]).err = ""

\* C3: for a file inode whose visited direct blocks are readable,
\* read_file_content fails with TruncatedFile exactly when
\* size > blockSize * k, k the number of direct ids before the first 0;
\* otherwise it succeeds; a failure returns no content.
C3_TruncatedIffSizeExceedsBlocks ==
    [][(pc = "cat_loop" /\ pc' = "exit" /\ VisitedReadable)
       => /\ err' \in {"", "TruncatedFile"}
          /\ err' = "TruncatedFile"
                <=> ino.size > sb.blockSize * KBeforeZero(ino.direct)
          /\ err' # "" => out' = <<>>]_vars

\* size = 2 blocks, one block before the 0, non-zero ids after the 0
C3_Witness ==
    /\ cmd = "cat" /\ pc = "exit" /\ err = "TruncatedFile" /\ out = <<>>
    /\ ino.size = 2 * sb.blockSize
    /\ ino.direct[1] # 0 /\ ino.direct[2] = 0 /\ ino.direct[3] # 0

\* --- C10 ------------------------------------------------------------------
\* C10 as stated: a command issues at most totalBlocks positioned reads after
\* the superblock's, each inside [0, totalBlocks * blockSize).
C10_ReadsBoundedByTotalBlocks ==
    SbOk =>
    /\ Len(OpReads) <= sb.totalBlocks
    /\ \A k \in 2..Len(reads) :
          reads[k].off >= 0
          /\ reads[k].off + reads[k].len <= sb.totalBlocks * sb.blockSize

ReadBound ==
    LET n == Len(split_path(path)) IN
    IF cmd = "info" THEN 1
    ELSE IF cmd = "ls" THEN 2 * n + 2 + (sb.blockSize \div DIRENTRY_SIZE)
    ELSE IF cmd = "cat" THEN 2 * n + 1 + NDIRECT
    ELSE sb.freeBitmapBlocks

ReadsWithinGeometry ==
    SbOk =>
    /\ Len(OpReads) <= ReadBound
    /\ pc \in {"resolve", "walk", "ls", "cat"} => Len(OpReads) <= 2 * Len(split_path(path))
    /\ \A k \in 2..Len(reads) :
          /\ reads[k].kind = "block"
                => /\ reads[k].off >= 0
                   /\ reads[k].off + reads[k].len <= sb.totalBlocks * sb.blockSize
          /\ reads[k].kind = "inode"
                => /\ reads[k].off >= sb.inodeTableStart * sb.blockSize
                   /\ reads[k].off + reads[k].len
                         <= (sb.inodeTableStart + sb.inodeTableBlocks) * sb.blockSize

\* the position in main(), then what is left of the loop it is in
Rank(p) ==
    IF p = "open" THEN 5 ELSE IF p = "resolve" THEN 4 ELSE IF p = "walk" THEN 3
    ELSE IF p \in {"info", "ls", "cat", "bitmap"} THEN 2
    ELSE IF p = "exit" THEN 0 ELSE 1

LoopLeft(p, cs, es, i, s) ==
    IF p = "walk" THEN Len(cs)
    ELSE IF p = "ls_loop" THEN Len(es)
    ELSE IF p = "cat_loop" THEN NDIRECT + 1 - i
    ELSE IF p = "bitmap_loop" /\ i < s.freeBitmapBlocks THEN s.freeBitmapBlocks - i
    ELSE 0

\* C10 as amended: every command ends (each step lowers a rank that is never
\* negative), for every image and path; its reads are bounded by the path and
\* the record counts, not by totalBlocks: resolve_path issues at most 2 reads
\* per path component, list_dir at most 2 + blockSize div 64 more,
\* read_file_content at most 1 + 8 more, bitmap_stats at most freeBitmapBlocks;
\* every read of read_block lies inside [0, totalBlocks * blockSize) and every
\* read of read_inode inside the inode table's blocks.
C10_ReadsBoundedByPathAndRecords ==
    /\ []ReadsWithinGeometry
    /\ [][\/ Rank(pc') < Rank(pc)
          \/ /\ Rank(pc') = Rank(pc)
             /\ LoopLeft(pc', comps', entries', idx', sb') >= 0
             /\ LoopLeft(pc', comps', entries', idx', sb')
                   < LoopLeft(pc, comps, entries, idx, sb)]_vars

\* resolve_path returned after more reads than the image has blocks
C10_Witness ==
    /\ SbOk /\ pc \in {"ls", "cat"} /\ err = ""
    /\ Len(OpReads) > sb.totalBlocks
    /\ Len(OpReads) = 2 * Len(split_path(path))

Spec == Init /\ [][Next]_vars

====
